---- MODULE Spec2Model ----
(***************************************************************************)
(* RedInk image generators: the asynchronous ModelScope Z-Image generator  *)
(* (submit, poll, fetch) and the synchronous Wan2.6 generator (submit,     *)
(* extract, resolve).  One behaviour constructs one generator and runs one *)
(* generate_image call on it, against an environment that answers each     *)
(* HTTP request with a status code and a body and that advances the clock. *)
(* The log records the calls the code makes into the transport             *)
(* (requests.post, requests.get) and into time.sleep, in order.            *)
(*                                                                         *)
(* Strings are TLA+ strings; JSON values are tagged records.  Time is      *)
(* counted in clock ticks (the resolution of time.time()).                 *)
(***************************************************************************)
EXTENDS Integers, Sequences, FiniteSets, TLC

VARIABLES
    gen,          \* which class was constructed: "none", "async", "sync"
    pc,           \* position of the call
    self,         \* the generator's fields after __init__
    model_id,     \* local: effective model
    create_url,   \* local: URL of the create / submit POST
    task_url,     \* local: URL of the status GET
    deadline,     \* local: absolute deadline of the polling loop
    last_status,  \* local: last non-empty status (JNull when none yet)
    task_status,  \* local: upper-cased status of the latest poll response
    task_data,    \* local: JSON body of the latest poll / submit response
    image_url,    \* local: the URL about to be fetched
    extracted,    \* local (sync): the extractor's result
    now,          \* time.time()
    t_enter,      \* ghost: the clock when the polling loop was entered
    iter,         \* ghost: loop iterations started (deadline checks made)
    log,          \* ghost: HTTP requests and sleeps of the call, in order
    result,       \* bytes returned, or NoBytes
    err,          \* the exception raised, or NoErr
    other,        \* a second call on the same instance, while it is not running
    call,         \* a helper function applied on its own: its name and arguments
    ret           \* what that helper returned

vars == <<gen, pc, self, model_id, create_url, task_url, deadline, last_status,
          task_status, task_data, image_url, extracted, now, t_enter, iter,
          log, result, err, other, call, ret>>

\* what a generation call never touches
Aux == <<other, call, ret>>

----------------------------------------------------------------------------
(* Bounds of the model. *)

MaxWaitCfg == 2      \* largest configured max_wait_seconds, in ticks
MaxPollCfg == 2      \* largest configured poll_interval_seconds, in ticks
MaxReqTime == 1      \* longest time one HTTP request takes, in ticks
MaxOversleep == 0    \* longest time.sleep overshoots the interval, in ticks
MaxExtraText == 1    \* characters by which the longest error body exceeds the limits
MaxBytesLen == 3     \* longest image sent inline, in bytes
MaxSizeLen == 4      \* longest size argument, in characters
MaxPromptOver == 2   \* how far prompts and configured maxima go past a limit
MaxGap == 2          \* longest run of blanks inside a prompt

(* Program constants. *)

DefaultPollInterval == 3
DefaultMaxWait == 300
AsyncDetailLimit == 800    \* response.text[:800] of a failed create or poll
ImageDetailLimit == 200    \* img_resp.text[:200] of a failed image GET
SyncDetailLimit == 500     \* (resp.text or "")[:500] of a failed submit
PromptFloor == 100         \* the least max_chars _normalize_prompt works with
DefaultMaxPromptChars == 1900

----------------------------------------------------------------------------
(* Python strings. *)

Ch(s, i) == SubSeq(s, i, i)

IsSpace(c) == c \in {" ", "\t", "\n"}

IsDigit(c) == c \in {"0", "1", "2", "3", "4", "5", "6", "7", "8", "9"}

RECURSIVE LStrip(_)
LStrip(s) == IF Len(s) > 0 /\ IsSpace(Ch(s, 1)) THEN LStrip(Tail(s)) ELSE s

RECURSIVE RStrip(_)
RStrip(s) ==
    IF Len(s) > 0 /\ IsSpace(Ch(s, Len(s)))
    THEN RStrip(SubSeq(s, 1, Len(s) - 1))
    ELSE s

Strip(s) == RStrip(LStrip(s))

RECURSIVE RStripSlash(_)
RStripSlash(s) ==
    IF Len(s) > 0 /\ Ch(s, Len(s)) = "/"
    THEN RStripSlash(SubSeq(s, 1, Len(s) - 1))
    ELSE s

StartsWith(s, p) == Len(p) <= Len(s) /\ SubSeq(s, 1, Len(p)) = p

EndsWith(s, p) ==
    Len(p) <= Len(s) /\ SubSeq(s, Len(s) - Len(p) + 1, Len(s)) = p

Contains(s, p) ==
    \E i \in 1..(Len(s) - Len(p) + 1) : SubSeq(s, i, i + Len(p) - 1) = p

\* s[:-n] for 0 < n <= len(s)
DropLast(s, n) == SubSeq(s, 1, Len(s) - n)

\* s.split(p, 1)[0]
BeforeFirst(s, p) ==
    IF Contains(s, p)
    THEN LET i == CHOOSE k \in 1..(Len(s) - Len(p) + 1) :
                      /\ SubSeq(s, k, k + Len(p) - 1) = p
                      /\ \A j \in 1..(k - 1) : SubSeq(s, j, j + Len(p) - 1) # p
         IN  SubSeq(s, 1, i - 1)
    ELSE s

\* s[:n]
Prefix(s, n) == SubSeq(s, 1, IF Len(s) < n THEN Len(s) ELSE n)

\* c * n
RECURSIVE Rep(_, _)
Rep(c, n) ==
    IF n <= 0 THEN ""
    ELSE LET half == Rep(c, n \div 2)
         IN  IF n % 2 = 0 THEN half \o half ELSE half \o half \o c

\* x or d, for a string or None (None and "" are both falsy)
StrOr(x, d) == IF x # "" THEN x ELSE d

\* float(x or d), for a number in ticks
NumOr(x, d) == IF x # 0 THEN x ELSE d

LowerCase == "abcdefghijklmnopqrstuvwxyz"
UpperCase == "ABCDEFGHIJKLMNOPQRSTUVWXYZ"

LowerChar(c) ==
    IF \E i \in 1..Len(UpperCase) : Ch(UpperCase, i) = c
    THEN Ch(LowerCase, CHOOSE i \in 1..Len(UpperCase) : Ch(UpperCase, i) = c)
    ELSE c

RECURSIVE Lower(_)
Lower(s) == IF s = "" THEN "" ELSE LowerChar(Ch(s, 1)) \o Lower(Tail(s))

\* s.replace(a, b), for a single character a
RECURSIVE Replace(_, _, _)
Replace(s, a, b) ==
    IF s = "" THEN ""
    ELSE (IF Ch(s, 1) = a THEN b ELSE Ch(s, 1)) \o Replace(Tail(s), a, b)

\* [p for p in s.split(sep) if p], for a single character sep
RECURSIVE SplitNonEmpty(_, _, _)
SplitNonEmpty(s, sep, cur) ==
    IF s = "" THEN (IF cur = "" THEN <<>> ELSE <<cur>>)
    ELSE IF Ch(s, 1) = sep
    THEN (IF cur = "" THEN <<>> ELSE <<cur>>) \o SplitNonEmpty(Tail(s), sep, "")
    ELSE SplitNonEmpty(Tail(s), sep, cur \o Ch(s, 1))

DecimalDigits == "0123456789"

DigitVal(c) == (CHOOSE i \in 1..Len(DecimalDigits) : Ch(DecimalDigits, i) = c) - 1

\* int(s), for a non-empty string of decimal digits
RECURSIVE StrToInt(_)
StrToInt(s) ==
    IF s = "" THEN 0
    ELSE StrToInt(DropLast(s, 1)) * 10 + DigitVal(Ch(s, Len(s)))

\* str(n), for n >= 0
RECURSIVE IntToStr(_)
IntToStr(n) ==
    IF n < 10 THEN Ch(DecimalDigits, n + 1)
    ELSE IntToStr(n \div 10) \o Ch(DecimalDigits, (n % 10) + 1)

UpperChar(c) ==
    IF \E i \in 1..Len(LowerCase) : Ch(LowerCase, i) = c
    THEN Ch(UpperCase, CHOOSE i \in 1..Len(LowerCase) : Ch(LowerCase, i) = c)
    ELSE c

RECURSIVE Upper(_)
Upper(s) == IF s = "" THEN "" ELSE UpperChar(Ch(s, 1)) \o Upper(Tail(s))

----------------------------------------------------------------------------
(* JSON values, as response.json() returns them. *)

JNull == [t |-> "null"]
JStr(s) == [t |-> "str", v |-> s]
JNum(n) == [t |-> "num", v |-> n]
JList(l) == [t |-> "list", v |-> l]
JDict(d) == [t |-> "dict", v |-> d]
EmptyDict == JDict(<<>>)

IsStr(j) == j.t = "str"
IsList(j) == j.t = "list"
IsDict(j) == j.t = "dict"

\* Python truthiness
Truthy(j) ==
    CASE j.t = "null" -> FALSE
      [] j.t = "str"  -> j.v # ""
      [] j.t = "num"  -> j.v # 0
      [] j.t = "list" -> Len(j.v) > 0
      [] j.t = "dict" -> DOMAIN j.v # {}

\* a or b
Or(a, b) == IF Truthy(a) THEN a ELSE b

\* d.get(k), for a dict d
Get(d, k) == IF k \in DOMAIN d.v THEN d.v[k] ELSE JNull

NoBytes == [ok |-> FALSE]
Bytes(b) == [ok |-> TRUE, bytes |-> b]
NoErr == [kind |-> "none"]

----------------------------------------------------------------------------
(* Inputs: configurations, arguments and responses. *)

ApiKeys == {"", "sk"}
AsyncBaseUrlCfgs == {" / ", "http://h/v1"}
EndpointCfgs == {"", "img"}
ModelCfgs == {"", " "}
ModelArgs == {"", " "}
TaskEndpointCfgs == {""}
PollCfgs == 0..MaxPollCfg          \* 0: not configured
WaitCfgs == 1..MaxWaitCfg

SyncBaseUrlCfgs ==
    {"", " ", "https://dashscope.aliyuncs.com", "http://h/api/",
     "http://h/api/v1/services/aigc/multimodal-generation/generation"}

Codes == {200, 500}
ReqTimes == 0..MaxReqTime
Oversleeps == 0..MaxOversleep
Bodies == {<<137, 80>>, <<255>>}

\* the text of a non-200 response: empty, short, longer than every limit
LongText == Rep("e", AsyncDetailLimit + MaxExtraText)
ErrorTexts == {"", "bad gateway", LongText}

\* response.text, which the code reads only when the request failed
ResponseTexts(code) == IF code = 200 THEN {""} ELSE ErrorTexts

\* response.json() and response.content, which it reads only on 200
ResponseDocs(code, docs) == IF code = 200 THEN docs ELSE {JNull}
ResponseContents(code) == IF code = 200 THEN Bodies ELSE {<<>>}

\* bodies of the create-task response
CreateDocs ==
    {JNull, EmptyDict,
     JDict("task_id" :> JStr("abc")),
     JDict("task_id" :> JStr("") @@ "id" :> JStr("t2")),
     JDict("task_id" :> JNum(0))}

----------------------------------------------------------------------------
(* ModelScopeZImageGenerator.__init__ *)

\* the group of re.search(r'^/(v\d+)', e), "" when there is no match
RECURSIVE Digits(_, _)
Digits(s, i) ==
    IF i <= Len(s) /\ IsDigit(Ch(s, i)) THEN Ch(s, i) \o Digits(s, i + 1) ELSE ""

VersionGroup(e) ==
    IF StartsWith(e, "/v") /\ Digits(e, 3) # "" THEN "v" \o Digits(e, 3) ELSE ""

WithSlash(e) == IF StartsWith(e, "/") THEN e ELSE "/" \o e

AsyncEndpointType(cfg_endpoint) ==
    WithSlash(Strip(StrOr(cfg_endpoint, "/v1/images/generations")))

AsyncBaseUrl(cfg_base, endpoint_type) ==
    LET base_url == RStripSlash(Strip(StrOr(cfg_base, "https://api-inference.modelscope.cn")))
        version_prefix == "/" \o VersionGroup(endpoint_type)
    IN  IF VersionGroup(endpoint_type) # ""
        THEN IF EndsWith(base_url, version_prefix)
             THEN RStripSlash(DropLast(base_url, Len(version_prefix)))
             ELSE base_url
        ELSE IF EndsWith(base_url, "/v1") /\ StartsWith(endpoint_type, "/v1")
             THEN RStripSlash(DropLast(base_url, 3))
             ELSE base_url

AsyncInit ==
    /\ pc = "new"
    /\ \E k \in ApiKeys, b \in AsyncBaseUrlCfgs, e \in EndpointCfgs,
          m \in ModelCfgs, t \in TaskEndpointCfgs, p \in PollCfgs, w \in WaitCfgs :
          self' = [api_key |-> k,
                   base_url |-> AsyncBaseUrl(b, AsyncEndpointType(e)),
                   endpoint_type |-> AsyncEndpointType(e),
                   model |-> StrOr(m, "Tongyi-MAI/Z-Image-Turbo"),
                   task_endpoint |-> WithSlash(Strip(StrOr(t, "/v1/tasks"))),
                   poll_interval_seconds |-> NumOr(p, DefaultPollInterval),
                   max_wait_seconds |-> NumOr(w, DefaultMaxWait)]
    /\ gen' = "async"
    /\ pc' = "ready"
    /\ UNCHANGED <<model_id, create_url, task_url, deadline, last_status,
                   task_status, task_data, image_url, extracted, now, t_enter,
                   iter, log, result, err>>
    /\ UNCHANGED Aux

----------------------------------------------------------------------------
(* ModelScopeZImageGenerator.generate_image *)

Locals == <<model_id, create_url, task_url, deadline, last_status, task_status,
            task_data, image_url, extracted>>

\* mutant: only codes above 500 count as failures
HttpFailed_Above500(code) == code > 500

\* lines 100, 132, 158 (and 167, 182 of the sync generator): anything but 200 fails
HttpFailed(code) == code # 200

Raise(e) ==
    /\ err' = e
    /\ pc' = "error"

\* validate_config: the exception it raises, NoErr when it returns True
AsyncValidateConfig ==
    IF self.api_key = "" THEN [kind |-> "config", what |-> "api_key"]
    ELSE IF self.base_url = "" THEN [kind |-> "config", what |-> "base_url"]
    ELSE NoErr

\* lines 74-97: validation and the request that is about to be sent
AsyncGenerate ==
    /\ pc = "ready"
    /\ gen = "async"
    /\ \E model \in ModelArgs :
          LET mid == Strip(StrOr(model, self.model)) IN
          IF AsyncValidateConfig # NoErr
          THEN Raise(AsyncValidateConfig) /\ UNCHANGED <<model_id, create_url>>
          ELSE IF mid = ""
          THEN Raise([kind |-> "config", what |-> "model"])
               /\ UNCHANGED <<model_id, create_url>>
          ELSE /\ model_id' = mid
               /\ create_url' = self.base_url \o self.endpoint_type
               /\ pc' = "post"
               /\ err' = err
    /\ UNCHANGED <<gen, self, task_url, deadline, last_status, task_status,
                   task_data, image_url, extracted, now, t_enter, iter, log,
                   result>>
    /\ UNCHANGED Aux

\* mutant: the budget is counted twice
DeadlineAt_Doubled(t, max_wait) == t + 2 * max_wait

\* line 123
DeadlineAt(t, max_wait) == t + max_wait

\* mutant: a response without a task id gets a made-up one
TaskIdOf_Defaulted(data) == Or(Or(Get(data, "task_id"), Get(data, "id")), JStr("unknown"))

\* the task id of a create response: data.get("task_id") or data.get("id")
TaskIdOf(data) == Or(Get(data, "task_id"), Get(data, "id"))

\* lines 98-124: the create POST, its response, entry to the polling loop
AsyncCreate ==
    /\ pc = "post"
    /\ \E code \in Codes, d \in ReqTimes :
       \E body \in ResponseDocs(code, CreateDocs), text \in ResponseTexts(code) :
          LET data == Or(body, EmptyDict)
              task_id == TaskIdOf(data)
          IN  /\ log' = Append(log, [op |-> "POST", url |-> create_url, code |-> code,
                                     body |-> body, text |-> text])
              /\ now' = now + d
              /\ IF HttpFailed(code)
                 THEN /\ Raise([kind |-> "request", code |-> code, url |-> create_url,
                                detail |-> Prefix(text, AsyncDetailLimit)])
                      /\ UNCHANGED <<task_url, deadline, last_status, t_enter>>
                 ELSE IF ~Truthy(task_id)
                 THEN /\ Raise([kind |-> "no_task_id"])
                      /\ UNCHANGED <<task_url, deadline, last_status, t_enter>>
                 ELSE /\ task_url' = self.base_url \o self.task_endpoint \o "/" \o task_id.v
                      /\ deadline' = DeadlineAt(now', self.max_wait_seconds)
                      /\ t_enter' = now'
                      /\ last_status' = JNull
                      /\ pc' = "loop"
                      /\ err' = err
    /\ UNCHANGED <<gen, self, model_id, create_url, task_status, task_data,
                   image_url, extracted, iter, result>>
    /\ UNCHANGED Aux

----------------------------------------------------------------------------
(* The polling loop, lines 125-175 *)

\* bodies of the task-status response
PollDocs ==
    {JNull,
     JDict("task_status" :> JStr("RUNNING")),
     JDict("status" :> JStr("succeeded")
           @@ "output_images" :> JList(<<JStr("http://x/early.png")>>)),
     JDict("task_status" :> JStr("SUCCEED")
           @@ "output_images" :> JList(<<JStr("http://x/img.png")>>)),
     JDict("status" :> JStr("succeed")
           @@ "output_images" :> JList(<<JStr("http://y/2.png"), JStr("http://y/3.png")>>)),
     JDict("task_status" :> JStr("SUCCEED") @@ "output_images" :> JList(<<JStr(" ")>>)),
     JDict("task_status" :> JStr("SUCCEED") @@ "output_images" :> JList(<<JNum(5)>>)),
     JDict("task_status" :> JStr("SUCCEED") @@ "output_images" :> JStr("http://x")),
     JDict("task_status" :> JStr("SUCCEED")),
     JDict("task_status" :> JStr("FAILED") @@ "message" :> JStr("nsfw content")),
     JDict("status" :> JStr("Failed") @@ "message" :> JStr("")
           @@ "error" :> JStr("e") @@ "output" :> JStr("o")),
     JDict("task_status" :> JStr("FAILED") @@ "output" :> JStr("o")),
     JDict("task_status" :> JStr("failed") @@ "error" :> JNull @@ "output" :> EmptyDict)}

\* mutant: the deadline check is one tick late
DeadlinePassed_Late(t, dl) == t > dl + 1

\* line 126
DeadlinePassed(t, dl) == t > dl

\* line 141
StatusOf(data) ==
    Upper(Or(Or(Get(data, "task_status"), Get(data, "status")), JStr("")).v)

\* mutant: the latest status is kept even when it is empty
NextLastStatus_Latest(status, last) == JStr(status)

\* line 142
NextLastStatus(status, last) == IF status # "" THEN JStr(status) ELSE last

\* mutant: SUCCEEDED counts as success too
IsSucceed_Lenient(status) == status \in {"SUCCEED", "SUCCEEDED"}

\* line 144
IsSucceed(status) == status = "SUCCEED"

\* mutant: the failure status is misspelt
IsFailed_Typo(status) == status = "FAILURE"

IsFailed(status) == status = "FAILED"

\* line 171: the generic text (a Chinese literal in the source, "unknown error")
UnknownErrorText == "unknown error"

\* mutant: output is consulted before message and error
FailedMessage_OutputFirst(data) ==
    Or(Or(Or(Get(data, "output"), Get(data, "message")), Get(data, "error")),
       JStr(UnknownErrorText))

\* lines 167-172
FailedMessage(data) ==
    Or(Or(Or(Get(data, "message"), Get(data, "error")), Get(data, "output")),
       JStr(UnknownErrorText))

\* lines 126-129
AsyncTimeout ==
    /\ pc = "loop"
    /\ DeadlinePassed(now, deadline)
    /\ iter' = iter + 1
    /\ Raise([kind |-> "timeout", wait |-> self.max_wait_seconds,
              last_status |-> last_status])
    /\ UNCHANGED <<gen, self, Locals, now, t_enter, log, result>>
    /\ UNCHANGED Aux

\* lines 126-175: one iteration up to its next blocking call
AsyncPoll ==
    /\ pc = "loop"
    /\ ~DeadlinePassed(now, deadline)
    /\ iter' = iter + 1
    /\ \E code \in Codes, d \in ReqTimes :
       \E body \in ResponseDocs(code, PollDocs), text \in ResponseTexts(code) :
          LET data == Or(body, EmptyDict)
              status == StatusOf(data)
              output_images == Or(Get(data, "output_images"), JList(<<>>))
          IN  /\ log' = Append(log, [op |-> "GET", url |-> task_url, code |-> code,
                                     at |-> now, text |-> text,
                                     status |-> IF HttpFailed(code) THEN "" ELSE status])
              /\ now' = now + d
              /\ IF HttpFailed(code)
                 THEN /\ Raise([kind |-> "request", code |-> code, url |-> task_url,
                                detail |-> Prefix(text, AsyncDetailLimit)])
                      /\ UNCHANGED <<task_data, task_status, last_status, image_url>>
                 ELSE /\ task_data' = data
                      /\ task_status' = status
                      /\ last_status' = NextLastStatus(status, last_status)
                      /\ IF IsSucceed(status)
                         THEN IF ~IsList(output_images) \/ ~Truthy(output_images)
                              THEN Raise([kind |-> "no_image"]) /\ image_url' = image_url
                              ELSE IF ~IsStr(output_images.v[1])
                                      \/ Strip(output_images.v[1].v) = ""
                              THEN Raise([kind |-> "bad_image_url"]) /\ image_url' = image_url
                              ELSE /\ image_url' = output_images.v[1].v
                                   /\ pc' = "fetch"
                                   /\ err' = err
                         ELSE IF IsFailed(status)
                         THEN Raise([kind |-> "failed", msg |-> FailedMessage(data)])
                              /\ image_url' = image_url
                         ELSE /\ pc' = "sleep"
                              /\ UNCHANGED <<err, image_url>>
    /\ UNCHANGED <<gen, self, model_id, create_url, task_url, deadline,
                   extracted, t_enter, result>>
    /\ UNCHANGED Aux

\* mutant: the body of the image response is dropped
ReturnedContent_Empty(content) == <<>>

\* line 164
ReturnedContent(content) == content

\* lines 157-164
AsyncFetch ==
    /\ pc = "fetch"
    /\ \E code \in Codes :
       \E content \in ResponseContents(code), text \in ResponseTexts(code) :
          /\ log' = Append(log, [op |-> "GET_IMAGE", url |-> image_url, code |-> code,
                                 content |-> content, text |-> text])
          /\ IF HttpFailed(code)
             THEN Raise([kind |-> "download", code |-> code, url |-> image_url,
                         detail |-> Prefix(text, ImageDetailLimit)])
                  /\ result' = result
             ELSE /\ result' = Bytes(ReturnedContent(content))
                  /\ pc' = "done"
                  /\ err' = err
    /\ UNCHANGED <<gen, self, Locals, now, t_enter, iter>>
    /\ UNCHANGED Aux

\* line 175
SleepTime(interval, over) == interval + over

\* mutant: the call keeps a growing back-off on the instance
AsyncSleep_Backoff ==
    /\ pc = "sleep"
    /\ \E over \in Oversleeps : now' = now + SleepTime(self.poll_interval_seconds, over)
    /\ self' = [self EXCEPT !.poll_interval_seconds = @ + 1]
    /\ log' = Append(log, [op |-> "SLEEP"])
    /\ pc' = "loop"
    /\ UNCHANGED <<gen, Locals, t_enter, iter, result, err>>
    /\ UNCHANGED Aux

\* line 175
AsyncSleep ==
    /\ pc = "sleep"
    /\ \E over \in Oversleeps : now' = now + SleepTime(self.poll_interval_seconds, over)
    /\ log' = Append(log, [op |-> "SLEEP"])
    /\ pc' = "loop"
    /\ UNCHANGED <<gen, self, Locals, t_enter, iter, result, err>>
    /\ UNCHANGED Aux

----------------------------------------------------------------------------
(* Wan26T2IGenerator.__init__ *)

GenerationPath == "/services/aigc/multimodal-generation/generation"

\* lines 89-97
SyncBaseUrl(cfg_base) ==
    LET b0 == RStripSlash(Strip(StrOr(cfg_base, "https://dashscope.aliyuncs.com/api/v1")))
        b1 == IF Contains(b0, GenerationPath)
              THEN RStripSlash(BeforeFirst(b0, GenerationPath))
              ELSE b0
    IN  IF EndsWith(b1, "/api") THEN b1 \o "/v1"
        ELSE IF ~Contains(b1, "/api/") /\ Contains(b1, "dashscope") THEN b1 \o "/api/v1"
        ELSE b1

SyncInit ==
    /\ pc = "new"
    /\ gen' = "sync"
    /\ \E k \in ApiKeys, b \in SyncBaseUrlCfgs, m \in ModelCfgs :
          IF k = ""
          THEN /\ err' = [kind |-> "config", what |-> "api_key"]
               /\ pc' = "ctor_error"
               /\ self' = self
          ELSE /\ self' = [api_key |-> k,
                           base_url |-> SyncBaseUrl(b),
                           endpoint_path |-> GenerationPath,
                           model |-> StrOr(m, "wan2.6-t2i")]
               /\ pc' = "ready"
               /\ err' = err
    /\ UNCHANGED <<Locals, now, t_enter, iter, log, result>>
    /\ UNCHANGED Aux

----------------------------------------------------------------------------
(* _extract_image_url_or_b64 *)

NoRef == [raised |-> FALSE, url |-> JNull, b64 |-> JNull]
Ref(u, b) == [raised |-> FALSE, url |-> u, b64 |-> b]
Raised == [raised |-> TRUE, url |-> JNull, b64 |-> JNull]

\* b64_json or b64 or base64
InlineOf(d) == Or(Or(Get(d, "b64_json"), Get(d, "b64")), Get(d, "base64"))

\* image or image_url or url
UrlOf(d) == Or(Or(Get(d, "image"), Get(d, "image_url")), Get(d, "url"))

\* lines 61-67: the first dict of the list carrying a url or an inline value
RECURSIVE ScanParts(_, _)
ScanParts(parts, i) ==
    IF i > Len(parts) THEN NoRef
    ELSE IF IsDict(parts[i]) /\ (Truthy(UrlOf(parts[i])) \/ Truthy(InlineOf(parts[i])))
    THEN Ref(UrlOf(parts[i]), InlineOf(parts[i]))
    ELSE ScanParts(parts, i + 1)

\* lines 54-72: what one entry of choices yields, NoRef when nothing
ChoiceRef(choice) ==
    IF ~IsDict(choice) THEN NoRef
    ELSE LET message == Or(Get(choice, "message"), EmptyDict) IN
         IF ~IsDict(message) THEN NoRef
         ELSE LET content == Get(message, "content") IN
              IF IsList(content) THEN ScanParts(content.v, 1)
              ELSE IF IsDict(content)
                      /\ (Truthy(UrlOf(content)) \/ Truthy(InlineOf(content)))
              THEN Ref(UrlOf(content), InlineOf(content))
              ELSE NoRef

\* lines 53-72
RECURSIVE ScanChoices(_, _)
ScanChoices(choices, i) ==
    IF i > Len(choices) THEN NoRef
    ELSE IF ChoiceRef(choices[i]) # NoRef THEN ChoiceRef(choices[i])
    ELSE ScanChoices(choices, i + 1)

\* lines 42-49: the results branch returns whenever results[0] is a dict or falsy
ResultsBranchReturns(results) ==
    IsList(results) /\ Truthy(results) /\ IsDict(Or(results.v[1], EmptyDict))

\* lines 39-74
Extract(data) ==
    LET output == IF IsDict(data) THEN Or(Get(data, "output"), EmptyDict) ELSE EmptyDict
    IN  IF ~IsDict(output) THEN Raised      \* output.get raises AttributeError
        ELSE LET results == Get(output, "results")
                 choices == Get(output, "choices")
             IN  IF ResultsBranchReturns(results)
                 THEN LET first == Or(results.v[1], EmptyDict)
                      IN  Ref(Get(first, "url"), InlineOf(first))
                 ELSE IF IsList(choices) /\ Truthy(choices)
                 THEN ScanChoices(choices.v, 1)
                 ELSE NoRef

----------------------------------------------------------------------------
(* base64.b64decode, as binascii.a2b_base64 decodes in its default mode *)

B64Alphabet == "ABCDEFGHIJKLMNOPQRSTUVWXYZabcdefghijklmnopqrstuvwxyz0123456789+/"

\* the 6-bit value of a character, 64 for a character outside the alphabet
B64Val(c) ==
    IF \E i \in 1..Len(B64Alphabet) : Ch(B64Alphabet, i) = c
    THEN (CHOOSE i \in 1..Len(B64Alphabet) : Ch(B64Alphabet, i) = c) - 1
    ELSE 64

DecodeError == [ok |-> FALSE]

RECURSIVE B64Scan(_, _, _, _, _, _)
B64Scan(s, i, quad_pos, leftchar, pads, out) ==
    IF i > Len(s)
    THEN IF quad_pos # 0 THEN DecodeError ELSE Bytes(out)
    ELSE LET c == Ch(s, i)
             v == B64Val(c)
         IN  IF c = "="
             THEN IF quad_pos >= 2 /\ quad_pos + pads + 1 >= 4
                  THEN Bytes(out)
                  ELSE B64Scan(s, i + 1, quad_pos, leftchar,
                               IF quad_pos >= 2 THEN pads + 1 ELSE pads, out)
             ELSE IF v >= 64
             THEN B64Scan(s, i + 1, quad_pos, leftchar, pads, out)
             ELSE CASE quad_pos = 0 ->
                         B64Scan(s, i + 1, 1, v, 0, out)
                    [] quad_pos = 1 ->
                         B64Scan(s, i + 1, 2, v % 16, 0,
                                 Append(out, leftchar * 4 + v \div 16))
                    [] quad_pos = 2 ->
                         B64Scan(s, i + 1, 3, v % 4, 0,
                                 Append(out, leftchar * 16 + v \div 4))
                    [] quad_pos = 3 ->
                         B64Scan(s, i + 1, 0, 0, 0, Append(out, leftchar * 64 + v))

B64Decode(s) == B64Scan(s, 1, 0, 0, 0, <<>>)

\* mutant: the data-URI header is not stripped
ResolveInline_KeepsHeader(b64) == B64Decode(b64)

\* lines 187-189: strip a data-URI header, then decode
\* (split(",", 1)[1] raises IndexError when there is no comma)
ResolveInline(b64) ==
    IF StartsWith(b64, "data:")
    THEN IF Contains(b64, ",")
         THEN B64Decode(SubSeq(b64, Len(BeforeFirst(b64, ",")) + 2, Len(b64)))
         ELSE DecodeError
    ELSE B64Decode(b64)

----------------------------------------------------------------------------
(* Wan26T2IGenerator.generate_image *)

NoContent == [t |-> "empty"]

ImagePart == JDict("image" :> JStr("http://x/c.png"))
ChoiceWith(content) == JDict("message" :> JDict("content" :> content))
OutputDoc(o) == JDict("output" :> o)

\* bodies of the submit response
SyncBodies ==
    {NoContent, JNull, EmptyDict,
     OutputDoc(JStr("oops")),
     OutputDoc(JDict("results" :> JList(<<JDict("url" :> JStr("http://x/1.png"))>>))),
     OutputDoc(JDict("results" :> JList(<<JDict("b64_json" :> JStr("aGVsbG8="))>>))),
     OutputDoc(JDict("results" :> JList(<<JDict("url" :> JStr("http://x/1.png")
                                                 @@ "b64" :> JStr("aGk="))>>))),
     OutputDoc(JDict("results" :> JList(<<JDict("base64" :> JStr("a"))>>))),
     OutputDoc(JDict("results" :> JList(<<JDict("b64" :> JStr("data:image/png"))>>))),
     OutputDoc(JDict("results" :> JList(<<EmptyDict>>)
                     @@ "choices" :> JList(<<ChoiceWith(JList(<<ImagePart>>))>>))),
     OutputDoc(JDict("results" :> JList(<<JNull>>)
                     @@ "choices" :> JList(<<ChoiceWith(ImagePart)>>))),
     OutputDoc(JDict("results" :> JList(<<JStr("s")>>)
                     @@ "choices" :> JList(<<ChoiceWith(JDict("image_url" :> JStr("http://x/u.png")))>>))),
     OutputDoc(JDict("choices" :> JList(<<ChoiceWith(JList(<<JDict("text" :> JStr("t")),
                                                             ImagePart>>))>>))),
     OutputDoc(JDict("choices" :> JList(<<JStr("x"),
                 ChoiceWith(JDict("b64" :> JStr("data:image/png;base64,aGk=")))>>))),
     OutputDoc(JDict("choices" :> JList(<<ChoiceWith(JStr("text only"))>>)))}

\* lines 108-114
SyncValidateConfig ==
    IF self.api_key = "" THEN [kind |-> "config", what |-> "api_key"] ELSE NoErr

\* lines 127-164
SyncGenerate ==
    /\ pc = "ready"
    /\ gen = "sync"
    /\ IF SyncValidateConfig # NoErr
       THEN Raise(SyncValidateConfig) /\ create_url' = create_url
       ELSE /\ create_url' = self.base_url \o self.endpoint_path
            /\ pc' = "s_post"
            /\ err' = err
    /\ UNCHANGED <<gen, self, model_id, task_url, deadline, last_status,
                   task_status, task_data, image_url, extracted, now, t_enter,
                   iter, log, result>>
    /\ UNCHANGED Aux

\* mutant: an inline value is preferred to the url
FetchesUrl_InlineFirst(ex) == Truthy(ex.url) /\ ~Truthy(ex.b64)

\* line 180: a truthy url is fetched, whatever else the reference carries
FetchesUrl(ex) == Truthy(ex.url)

\* lines 165-191, up to the image GET, for a submit response drawn from bodies
SyncSubmitWith(bodies) ==
    /\ pc = "s_post"
    /\ \E code \in Codes :
       \E body \in ResponseDocs(code, bodies), text \in ResponseTexts(code) :
          LET data == IF body = NoContent THEN EmptyDict ELSE body
              ex == Extract(data)
          IN  /\ log' = Append(log, [op |-> "POST", url |-> create_url, code |-> code,
                                     body |-> body, text |-> text])
              /\ IF HttpFailed(code)
                 THEN /\ Raise([kind |-> "request", code |-> code, url |-> create_url,
                                detail |-> Prefix(text, SyncDetailLimit)])
                      /\ UNCHANGED <<task_data, extracted, image_url, result>>
                 ELSE /\ task_data' = data
                      /\ extracted' = ex
                      /\ IF ex.raised
                         THEN Raise([kind |-> "exception"])
                              /\ UNCHANGED <<image_url, result>>
                         ELSE IF FetchesUrl(ex)
                         THEN /\ image_url' = ex.url.v
                              /\ pc' = "s_fetch"
                              /\ UNCHANGED <<err, result>>
                         ELSE IF Truthy(ex.b64)
                         THEN IF ResolveInline(ex.b64.v).ok
                              THEN /\ result' = ResolveInline(ex.b64.v)
                                   /\ pc' = "done"
                                   /\ UNCHANGED <<err, image_url>>
                              ELSE Raise([kind |-> "decode"])
                                   /\ UNCHANGED <<image_url, result>>
                         ELSE Raise([kind |-> "not_found"])
                              /\ UNCHANGED <<image_url, result>>
    /\ UNCHANGED <<gen, self, model_id, create_url, task_url, deadline,
                   last_status, task_status, now, t_enter, iter>>
    /\ UNCHANGED Aux

SyncSubmit == SyncSubmitWith(SyncBodies)

\* images sent inline: every byte string up to MaxBytesLen, and b"hello"
ByteValues == {0, 104, 255}
Hello == <<104, 101, 108, 108, 111>>
ByteStrings == UNION {[1..n -> ByteValues] : n \in 0..MaxBytesLen} \cup {Hello}

\* base64.b64encode
B64Char(v) == Ch(B64Alphabet, v + 1)

RECURSIVE B64Encode(_)
B64Encode(b) ==
    IF Len(b) = 0 THEN ""
    ELSE IF Len(b) = 1
    THEN B64Char(b[1] \div 4) \o B64Char((b[1] % 4) * 16) \o "=="
    ELSE IF Len(b) = 2
    THEN B64Char(b[1] \div 4) \o B64Char((b[1] % 4) * 16 + b[2] \div 16)
         \o B64Char((b[2] % 16) * 4) \o "="
    ELSE B64Char(b[1] \div 4) \o B64Char((b[1] % 4) * 16 + b[2] \div 16)
         \o B64Char((b[2] % 16) * 4 + b[3] \div 64) \o B64Char(b[3] % 64)
         \o B64Encode(SubSeq(b, 4, Len(b)))

DataUriHeader == "data:image/png;base64,"
InlineKeys == {"b64_json", "b64", "base64"}

\* submit responses that carry an encoded image inline and no url
RoundTripBodies ==
    {OutputDoc(JDict("results" :> JList(<<JDict(k :> JStr(h \o B64Encode(b)))>>))) :
        k \in InlineKeys, h \in {"", DataUriHeader}, b \in ByteStrings}

RoundTripSubmit == SyncSubmitWith(RoundTripBodies)

\* lines 181-184
SyncFetch ==
    /\ pc = "s_fetch"
    /\ \E code \in Codes :
       \E content \in ResponseContents(code), text \in ResponseTexts(code) :
          /\ log' = Append(log, [op |-> "GET_IMAGE", url |-> image_url, code |-> code,
                                 content |-> content, text |-> text])
          /\ IF HttpFailed(code)
             THEN Raise([kind |-> "download", code |-> code])  \* line 183: the status only
                  /\ result' = result
             ELSE /\ result' = Bytes(content)
                  /\ pc' = "done"
                  /\ err' = err
    /\ UNCHANGED <<gen, self, Locals, now, t_enter, iter>>
    /\ UNCHANGED Aux

----------------------------------------------------------------------------

NoCall == [fn |-> "none"]
NoRet == [returned |-> FALSE]
NoCtx == [id |-> 0]

\* before the constructor runs
InitGen ==
    /\ gen = "none"
    /\ pc = "new"
    /\ self = [api_key |-> "", base_url |-> ""]
    /\ model_id = ""
    /\ create_url = ""
    /\ task_url = ""
    /\ deadline = 0
    /\ last_status = JNull
    /\ task_status = ""
    /\ task_data = JNull
    /\ image_url = ""
    /\ extracted = NoRef
    /\ now = 0
    /\ t_enter = 0
    /\ iter = 0
    /\ log = <<>>
    /\ result = NoBytes
    /\ err = NoErr

Init ==
    /\ InitGen
    /\ other = NoCtx
    /\ call = NoCall
    /\ ret = NoRet

Next ==
    \/ AsyncInit
    \/ AsyncGenerate
    \/ AsyncCreate
    \/ AsyncTimeout
    \/ AsyncPoll
    \/ AsyncFetch
    \/ AsyncSleep
    \/ SyncInit
    \/ SyncGenerate
    \/ SyncSubmit
    \/ SyncFetch

Spec == Init /\ [][Next]_vars

\* A call is one thread of control and each of its blocking calls returns (the
\* requests carry timeouts, the sleep is finite): the call always takes its
\* next step.
FairSpec == Spec /\ WF_vars(Next)

\* The sync generator answering submit responses with inline images only.
NextRoundTrip ==
    \/ SyncInit
    \/ SyncGenerate
    \/ RoundTripSubmit

SpecRoundTrip == Init /\ [][NextRoundTrip]_vars

----------------------------------------------------------------------------
(* _aspect_ratio_to_size and _normalize_size *)

\* Two characters of the source have no ASCII spelling: the multiplication
\* sign U+00D7 is written "#" here and the superscript two U+00B2 is written
\* "^".  str.isdigit() is true of the superscript two and int() rejects it.
MulSign == "#"
SuperTwo == "^"

AspectRatios == {"1:1", "2:3", "3:2", "3:4", "4:3", "9:16", "16:9", "21:9"}

\* lines 12-23
AspectRatioToSize(aspect_ratio) ==
    CASE aspect_ratio = "1:1"  -> "1280*1280"
      [] aspect_ratio = "2:3"  -> "800*1200"
      [] aspect_ratio = "3:2"  -> "1200*800"
      [] aspect_ratio = "3:4"  -> "960*1280"
      [] aspect_ratio = "4:3"  -> "1280*960"
      [] aspect_ratio = "9:16" -> "720*1280"
      [] aspect_ratio = "16:9" -> "1280*720"
      [] aspect_ratio = "21:9" -> "1344*576"
      [] OTHER -> "1280*1280"

Returned(v) == [returned |-> TRUE, raised |-> FALSE, value |-> v]
RaisedValueError == [returned |-> TRUE, raised |-> TRUE, value |-> ""]

\* str.isdigit(): every character is a digit, and there is at least one
RECURSIVE AllDigits(_)
AllDigits(s) ==
    s = "" \/ ((IsDigit(Ch(s, 1)) \/ Ch(s, 1) = SuperTwo) /\ AllDigits(Tail(s)))

PyIsDigit(s) == s # "" /\ AllDigits(s)

\* int() accepts the string: decimal digits only
RECURSIVE IntParses(_)
IntParses(s) == s = "" \/ (IsDigit(Ch(s, 1)) /\ IntParses(Tail(s)))

\* mutant: only the letter x is taken for a delimiter
Delimited_LetterOnly(s) == Replace(s, "x", "*")

\* lines 30-31, after strip and lower
Delimited(s) == Replace(Replace(s, "x", "*"), MulSign, "*")

\* lines 26-36; size is a JSON string or null
NormalizeSize(size, aspect_ratio) ==
    IF ~Truthy(size) THEN Returned(AspectRatioToSize(aspect_ratio))
    ELSE LET normalized == Delimited(Lower(Strip(size.v)))
             parts == SplitNonEmpty(normalized, "*", "")
         IN  IF Len(parts) = 2 /\ PyIsDigit(parts[1]) /\ PyIsDigit(parts[2])
             THEN IF IntParses(parts[1]) /\ IntParses(parts[2])
                  THEN Returned(IntToStr(StrToInt(parts[1])) \o "*"
                                \o IntToStr(StrToInt(parts[2])))
                  ELSE RaisedValueError
             ELSE Returned(AspectRatioToSize(aspect_ratio))

\* the size arguments: None and every string up to MaxSizeLen over these
SizeChars == {"0", "1", "x", "X", MulSign, SuperTwo, " "}

RECURSIVE StringsOver(_, _)
StringsOver(chars, n) ==
    IF n = 0 THEN {""}
    ELSE {""} \cup {c \o s : c \in chars, s \in StringsOver(chars, n - 1)}

SizeArgs == {JNull} \cup {JStr(s) : s \in StringsOver(SizeChars, MaxSizeLen)}
RatioArgs == AspectRatios \cup {"5:4"}

SizeInit ==
    /\ InitGen
    /\ other = NoCtx
    /\ call \in {[fn |-> "_normalize_size", size |-> s, aspect_ratio |-> r] :
                   s \in SizeArgs, r \in RatioArgs}
    /\ ret = NoRet

NormalizeSizeCall ==
    /\ call.fn = "_normalize_size"
    /\ ~ret.returned
    /\ ret' = NormalizeSize(call.size, call.aspect_ratio)
    /\ UNCHANGED <<gen, pc, self, Locals, now, t_enter, iter, log, result, err,
                   other, call>>

SpecSize == SizeInit /\ [][NormalizeSizeCall]_vars

----------------------------------------------------------------------------
(* ModelScopeZImageGenerator._normalize_prompt *)

\* line 40: int(config.get('max_prompt_chars') or 1900); 0 stands for not set
MaxPromptChars(cfg) == IF cfg # 0 THEN cfg ELSE DefaultMaxPromptChars

\* lines 48-50
MaxChars(max_prompt_chars) ==
    IF max_prompt_chars < PromptFloor THEN PromptFloor ELSE max_prompt_chars

\* mutant: the cut is not trimmed
Truncated_Untrimmed(text, max_chars) == Prefix(text, max_chars)

\* line 53
Truncated(text, max_chars) == RStrip(Prefix(text, max_chars))

\* lines 46-53; prompt is a JSON string or null
NormalizePrompt(prompt, max_prompt_chars) ==
    LET text == Strip(IF Truthy(prompt) THEN prompt.v ELSE "")
        max_chars == MaxChars(max_prompt_chars)
    IN  IF Len(text) <= max_chars THEN text ELSE Truncated(text, max_chars)

\* configured maxima: not set, negative, and around the floor
PromptMaxCfgs == {0, -5} \cup (PromptFloor - 1)..(PromptFloor + MaxPromptOver)

\* prompts: a run of letters, a run of blanks, a run of letters, with blanks
\* around; the first run ends near the floor or near the default maximum
FirstRuns ==
    {0, DefaultMaxPromptChars - 1}
        \cup (PromptFloor - MaxGap - 1)..(PromptFloor + MaxPromptOver + 1)

PromptArgs ==
    {JNull} \cup
    {JStr(lead \o Rep("a", k) \o Rep(" ", j) \o Rep("b", m) \o trail) :
        lead \in {"", " "}, trail \in {"", " \n"},
        k \in FirstRuns, j \in 0..MaxGap, m \in 0..MaxPromptOver}

PromptInit ==
    /\ InitGen
    /\ other = NoCtx
    /\ call \in {[fn |-> "_normalize_prompt", prompt |-> p,
                   max_prompt_chars |-> MaxPromptChars(c)] :
                   p \in PromptArgs, c \in PromptMaxCfgs}
    /\ ret = NoRet

NormalizePromptCall ==
    /\ call.fn = "_normalize_prompt"
    /\ ~ret.returned
    /\ ret' = Returned(NormalizePrompt(call.prompt, call.max_prompt_chars))
    /\ UNCHANGED <<gen, pc, self, Locals, now, t_enter, iter, log, result, err,
                   other, call>>

SpecPrompt == PromptInit /\ [][NormalizePromptCall]_vars

----------------------------------------------------------------------------
(* Two generate_image calls on one generator instance.  Each call has its   *)
(* own locals; while one call runs, the locals of the other are kept in     *)
(* other.  The instance (gen, self) and the clock are shared.  A call can   *)
(* be preempted between any two of its steps.                               *)

\* the locals of the running call, as call number id
CurCtx(id) ==
    [id |-> id, pc |-> pc, model_id |-> model_id, create_url |-> create_url,
     task_url |-> task_url, deadline |-> deadline, last_status |-> last_status,
     task_status |-> task_status, task_data |-> task_data,
     image_url |-> image_url, extracted |-> extracted, t_enter |-> t_enter,
     iter |-> iter, log |-> log, result |-> result, err |-> err]

\* a call that has not started
FreshCtx(id) ==
    [id |-> id, pc |-> "ready", model_id |-> "", create_url |-> "",
     task_url |-> "", deadline |-> 0, last_status |-> JNull,
     task_status |-> "", task_data |-> JNull, image_url |-> "",
     extracted |-> NoRef, t_enter |-> 0, iter |-> 0, log |-> <<>>,
     result |-> NoBytes, err |-> NoErr]

\* the running call is preempted and the other call goes on
Switch ==
    /\ gen # "none"
    /\ pc \notin {"new", "ctor_error"}
    /\ other.id # 0
    /\ other.pc \notin {"done", "error"}
    /\ other' = CurCtx(3 - other.id)
    /\ pc' = other.pc
    /\ model_id' = other.model_id
    /\ create_url' = other.create_url
    /\ task_url' = other.task_url
    /\ deadline' = other.deadline
    /\ last_status' = other.last_status
    /\ task_status' = other.task_status
    /\ task_data' = other.task_data
    /\ image_url' = other.image_url
    /\ extracted' = other.extracted
    /\ t_enter' = other.t_enter
    /\ iter' = other.iter
    /\ log' = other.log
    /\ result' = other.result
    /\ err' = other.err
    /\ UNCHANGED <<gen, self, now, call, ret>>

ConcInit ==
    /\ InitGen
    /\ other = FreshCtx(2)
    /\ call = NoCall
    /\ ret = NoRet

\* The environment of the two calls: one usable configuration of each
\* generator, requests that take no time, one error body, and these
\* task-status responses.
ConcPollData ==
    {EmptyDict,
     JDict("task_status" :> JStr("RUNNING")),
     JDict("task_status" :> JStr("SUCCEED")
           @@ "output_images" :> JList(<<JStr("http://x/img.png")>>)),
     JDict("task_status" :> JStr("FAILED") @@ "message" :> JStr("nsfw content"))}

\* the latest event of the call
LastEvent == log[Len(log)]

ShortText == log = <<>> \/ LastEvent.text \in {"", "bad gateway"}

ConcAsyncInit ==
    /\ AsyncInit
    /\ self'.api_key # "" /\ self'.base_url # ""
    /\ self'.endpoint_type = "/v1/images/generations"
    /\ self'.poll_interval_seconds = 1 /\ self'.max_wait_seconds = 1

ConcSyncInit ==
    /\ SyncInit
    /\ pc' = "ready"
    /\ self'.base_url = "http://h/api/v1"

ConcCreate == AsyncCreate /\ ShortText' /\ now' = now

ConcPoll ==
    /\ AsyncPoll
    /\ ShortText'
    /\ now' = now
    /\ LastEvent'.code = 200 => task_data' \in ConcPollData

ConcFetch == AsyncFetch /\ ShortText'

ConcSubmit == SyncSubmit /\ ShortText'

ConcSyncFetch == SyncFetch /\ ShortText'

NextConc ==
    \/ ConcAsyncInit
    \/ AsyncGenerate
    \/ ConcCreate
    \/ AsyncTimeout
    \/ ConcPoll
    \/ ConcFetch
    \/ AsyncSleep
    \/ ConcSyncInit
    \/ SyncGenerate
    \/ ConcSubmit
    \/ ConcSyncFetch
    \/ Switch

SpecConc == ConcInit /\ [][NextConc]_vars

----------------------------------------------------------------------------
(* Properties *)

Finished == pc \in {"done", "error", "ctor_error"}

HttpOps == {"POST", "GET", "GET_IMAGE"}

Polls == {i \in 1..Len(log) : log[i].op = "GET"}

Terminal(status) == status \in {"SUCCEED", "FAILED"}

\* the call got past the create POST and entered the polling loop
InPolling == gen = "async" /\ task_url # ""

CeilDiv(a, b) == (a + b - 1) \div b

\* C1: when the image GET that follows a SUCCEED poll returns 200, the async
\* call returns exactly the body of that GET, fetched from the first entry of
\* output_images, and raises nothing.
C1_ReturnsImageBytes ==
    (gen = "async" /\ Len(log) > 0 /\ LastEvent.op = "GET_IMAGE" /\ LastEvent.code = 200)
        => /\ pc = "done"
           /\ err = NoErr
           /\ result = Bytes(LastEvent.content)
           /\ task_status = "SUCCEED"
           /\ LastEvent.url = Get(task_data, "output_images").v[1].v

\* a run: create 200, a non-terminal poll, a sleep, a SUCCEED poll, image 200
C1_Witness ==
    /\ gen = "async" /\ pc = "done" /\ result.ok
    /\ Len(log) = 5 /\ log[2].op = "GET" /\ log[2].status = "RUNNING"
    /\ log[3].op = "SLEEP" /\ log[4].status = "SUCCEED"

\* C2 as stated: the loop is left only with image bytes, with the failure of a
\* FAILED status, or with the timeout; a 200 poll with a non-terminal status
\* leads to one sleep and another iteration.
C2_ThreeOutcomes ==
    /\ (InPolling /\ Finished)
          => (pc = "done" \/ err.kind \in {"failed", "timeout"})
    /\ (InPolling /\ Len(log) > 0 /\ LastEvent.op = "GET" /\ LastEvent.code = 200
          /\ ~Terminal(LastEvent.status)) => pc = "sleep"

\* C2 amended: the loop is left with image bytes, with the failure of a FAILED
\* status, with the timeout, or with one of four hard failures (a non-200 poll,
\* SUCCEED without a usable output_images list, SUCCEED with an invalid first
\* entry, a non-200 image GET); the call sleeps exactly after a 200 poll whose
\* upper-cased status is neither SUCCEED nor FAILED, once, and the sleep is
\* followed by the next iteration's deadline check.
C2_LoopOutcomes ==
    InPolling =>
       /\ Finished =>
             \/ pc = "done" /\ result.ok /\ task_status = "SUCCEED"
             \/ pc = "error" /\ err.kind = "failed" /\ task_status = "FAILED"
             \/ pc = "error" /\ err.kind = "timeout" /\ now > deadline
             \/ pc = "error" /\ err.kind = "request" /\ LastEvent.op = "GET"
                             /\ LastEvent.code # 200
             \/ pc = "error" /\ err.kind \in {"no_image", "bad_image_url"}
                             /\ task_status = "SUCCEED"
             \/ pc = "error" /\ err.kind = "download" /\ LastEvent.op = "GET_IMAGE"
                             /\ LastEvent.code # 200
       /\ pc = "sleep" <=> (/\ LastEvent.op = "GET" /\ LastEvent.code = 200
                            /\ ~Terminal(LastEvent.status))
       /\ \A i \in 1..Len(log) :
             log[i].op = "SLEEP" =>
                /\ log[i - 1].op = "GET" /\ log[i - 1].code = 200
                /\ ~Terminal(log[i - 1].status)
                /\ i = Len(log) => (pc = "loop" \/ err.kind = "timeout")
                /\ i < Len(log) => log[i + 1].op = "GET"

\* a FAILED exit after a sleep, and the loop was entered
C2_Witness ==
    /\ InPolling /\ pc = "error" /\ err.kind = "failed"
    /\ \E i \in 1..Len(log) : log[i].op = "SLEEP"

\* C3 as stated: the loop ends within ceil(maxWait / pollInterval) + 1
\* iterations.
C3_CeilBound ==
    gen = "async" =>
        iter <= CeilDiv(self.max_wait_seconds, self.poll_interval_seconds) + 1

\* C3 amended: with a positive poll interval and max wait the loop makes at
\* most floor(maxWait / pollInterval) + 1 status polls and starts at most
\* floor(maxWait / pollInterval) + 2 iterations, the last of which can only
\* raise the timeout; a run whose polls all return 200 with a non-terminal
\* status ends with the timeout error.
C3_Bound ==
    gen = "async" =>
        LET n == self.max_wait_seconds \div self.poll_interval_seconds IN
        /\ iter <= n + 2
        /\ Cardinality(Polls) <= n + 1
        /\ iter = n + 2 => (pc = "error" /\ err.kind = "timeout")
        /\ (InPolling /\ Finished
              /\ \A i \in Polls : log[i].code = 200 /\ ~Terminal(log[i].status))
                 => err.kind = "timeout"

\* C3 amended, with termination: every call ends.
C3_Terminates == []C3_Bound /\ <>Finished

\* the worst case where the interval divides the budget: one iteration more
\* than ceil(maxWait / pollInterval) + 1
C3_Witness ==
    /\ gen = "async" /\ pc = "error" /\ err.kind = "timeout"
    /\ self.max_wait_seconds % self.poll_interval_seconds = 0
    /\ iter = CeilDiv(self.max_wait_seconds, self.poll_interval_seconds) + 2

\* the first truthy of message, error, output of a poll response, else the
\* generic text
FirstPresentMessage(data) ==
    IF Truthy(Get(data, "message")) THEN Get(data, "message")
    ELSE IF Truthy(Get(data, "error")) THEN Get(data, "error")
    ELSE IF Truthy(Get(data, "output")) THEN Get(data, "output")
    ELSE JStr(UnknownErrorText)

\* C4: a 200 poll whose upper-cased status is FAILED ends the async call at
\* once: the poll is the last event of the call (no further poll, sleep or
\* image fetch) and the error carries the first present of message, error,
\* output, or the generic unknown-error text.
C4_FailedIsImmediate ==
    /\ (gen = "async" /\ Len(log) > 0 /\ LastEvent.op = "GET" /\ LastEvent.code = 200
          /\ LastEvent.status = "FAILED")
          => /\ pc = "error"
             /\ err.kind = "failed"
             /\ err.msg = FirstPresentMessage(task_data)
             /\ result = NoBytes
    /\ \A i \in 1..Len(log) :
          (gen = "async" /\ log[i].op = "GET" /\ log[i].status = "FAILED")
             => i = Len(log)

\* FAILED after an earlier non-terminal poll, with message empty and error set
C4_Witness ==
    /\ gen = "async" /\ err.kind = "failed" /\ Len(log) = 4
    /\ ~Truthy(Get(task_data, "message")) /\ err.msg = JStr("e")

\* a create response carries a task id
HasTaskId(body) ==
    /\ body.t = "dict"
    /\ \/ Truthy(Get(body, "task_id"))
       \/ Truthy(Get(body, "id"))

\* C5: when the create POST returns a non-200 status, or 200 without a
\* non-empty task_id or id, the async call raises (with the status code in the
\* non-200 case) and the POST is its only request: no status GET, no sleep, no
\* loop iteration.
C5_CreateFailureBeforePolling ==
    (gen = "async" /\ Len(log) > 0 /\ (log[1].code # 200 \/ ~HasTaskId(log[1].body)))
        => /\ Len(log) = 1
           /\ iter = 0
           /\ pc = "error"
           /\ log[1].code # 200 => (err.kind = "request" /\ err.code = log[1].code)
           /\ log[1].code = 200 => err.kind = "no_task_id"

\* create returned 200 with a falsy task_id and no id
C5_Witness ==
    /\ gen = "async" /\ pc = "error" /\ Len(log) = 1
    /\ log[1].code = 200 /\ log[1].body = JDict("task_id" :> JNum(0))

\* C6: in both generators a non-200 response is the last event of the call
\* and the call ends with an error; the only request that is repeated is the
\* status GET, and each repetition follows a sleep that follows a 200 poll
\* with a non-terminal status.
C6_NoRetry ==
    /\ \A i \in 1..Len(log) :
          (log[i].op \in HttpOps /\ log[i].code # 200)
             => /\ i = Len(log)
                /\ pc = "error"
                /\ err.kind \in {"request", "download"}
                /\ err.code = log[i].code
    /\ \A i, j \in 1..Len(log) :
          (i < j /\ log[i].op \in HttpOps /\ log[i].op = log[j].op)
             => /\ log[j].op = "GET"
                /\ log[j - 1].op = "SLEEP"
                /\ log[j - 2].op = "GET" /\ log[j - 2].code = 200
                /\ ~Terminal(log[j - 2].status)

\* a status poll fails after an earlier poll succeeded
C6_Witness ==
    /\ gen = "async" /\ pc = "error" /\ err.kind = "request"
    /\ Len(log) = 4 /\ log[4].op = "GET" /\ log[4].code = 500

\* the configuration a call sees is unusable
BadConfig ==
    \/ self.api_key = ""
    \/ self.base_url = ""
    \/ gen = "async" /\ model_id = ""

\* C7: with the credential missing, the effective base URL empty or (async)
\* the effective model id empty, the call fails with a configuration error
\* and issues no HTTP request.
C7_ConfigBeforeNetwork ==
    (gen # "none" /\ pc \notin {"new", "ready"} /\ BadConfig)
        => /\ log = <<>>
           /\ Finished => err.kind = "config"

\* the deadline as the claim defines it
Budget == t_enter + self.max_wait_seconds

\* C8: the deadline is (time at entry to polling) + maxWait for the whole
\* loop; no status poll starts later than it, whatever time the requests
\* took; at a loop top later than the deadline only the timeout can happen,
\* and the timeout is raised only then.
C8_DeadlineHonored ==
    InPolling =>
       /\ deadline = Budget
       /\ \A i \in Polls : log[i].at <= Budget
       /\ err.kind = "timeout" => now > Budget
       /\ (pc = "loop" /\ now > Budget) => (ENABLED AsyncTimeout /\ ~ENABLED AsyncPoll)
       /\ (pc = "loop" /\ now <= Budget) => (ENABLED AsyncPoll /\ ~ENABLED AsyncTimeout)

\* a slow poll used up the budget: the timeout comes after fewer polls than
\* the poll interval alone allows
C8_Witness ==
    /\ InPolling /\ err.kind = "timeout"
    /\ Cardinality(Polls) < self.max_wait_seconds \div self.poll_interval_seconds + 1
    /\ t_enter > 0

\* the status of the most recent poll response
LastPollStatus == log[CHOOSE i \in Polls : \A j \in Polls : j <= i].status

\* the last non-empty status any poll response carried, None when none did
RECURSIVE LastNonEmptyStatus(_)
LastNonEmptyStatus(i) ==
    IF i = 0 THEN JNull
    ELSE IF log[i].op = "GET" /\ log[i].status # "" THEN JStr(log[i].status)
    ELSE LastNonEmptyStatus(i - 1)

OutputOf(data) == IF IsDict(data) THEN Or(Get(data, "output"), EmptyDict) ELSE EmptyDict

\* output.results[0] carries neither a url nor an inline value
ResultsCarryNone(output) ==
    LET results == Get(output, "results") IN
    \/ ~IsList(results)
    \/ ~Truthy(results)
    \/ ~IsDict(results.v[1])
    \/ ~Truthy(Get(results.v[1], "url")) /\ ~Truthy(InlineOf(results.v[1]))

\* what the choices branch yields, NoRef when nothing
ChoicesYield(output) ==
    LET choices == Get(output, "choices") IN
    IF IsList(choices) THEN ScanChoices(choices.v, 1) ELSE NoRef

\* C10: when output.results[0] carries no value and some entry of
\* output.choices carries one, the extractor returns the value of the first
\* such entry; it returns the empty reference only if no branch yields one.
C10_SearchOrder ==
    (gen = "sync" /\ Len(log) > 0 /\ log[1].code = 200 /\ IsDict(OutputOf(task_data)))
        => LET output == OutputOf(task_data) IN
           /\ (ResultsCarryNone(output) /\ ChoicesYield(output) # NoRef)
                 => extracted = ChoicesYield(output)
           /\ extracted = NoRef
                 => (ResultsCarryNone(output) /\ ChoicesYield(output) = NoRef)

\* C11: the extractor returns a reference for every response document and
\* never raises, whatever the type of its output, results, choices, message or
\* content; a document with neither a results list nor a choices list yields
\* the empty reference.
C11_ExtractorTotal ==
    (gen = "sync" /\ Len(log) > 0 /\ log[1].code = 200)
        => /\ ~extracted.raised
           /\ err.kind # "exception"
           /\ IF IsDict(OutputOf(task_data))
              THEN (/\ ~IsList(Get(OutputOf(task_data), "results"))
                    /\ ~IsList(Get(OutputOf(task_data), "choices")))
                       => extracted = NoRef
              ELSE extracted = NoRef

\* the longest body prefix an error of the generator carries
DetailLimit == IF gen = "sync" THEN SyncDetailLimit ELSE AsyncDetailLimit

\* C12: in both generators the error raised for a non-200 response of a
\* create/submit, poll or image-fetch request carries the status code, the
\* requested URL and a prefix of the response body, at most 500 characters
\* (sync) or 800 characters (async) long and the whole body when it is shorter
\* than the limit of the request.
C12_ErrorsCarryContext ==
    \A i \in 1..Len(log) :
        (log[i].op \in HttpOps /\ log[i].code # 200)
           => /\ pc = "error"
              /\ {"code", "url", "detail"} \subseteq DOMAIN err
              /\ err.code = log[i].code
              /\ err.url = log[i].url
              /\ Len(err.detail) <= DetailLimit
              /\ StartsWith(log[i].text, err.detail)
              /\ log[i].text # "" => err.detail # ""

\* the URL repeats a version segment: /vN/vN as two whole path segments
DoubledVersion(u) ==
    \E i \in 1..Len(u) :
        LET rest == SubSeq(u, i, Len(u))
            v == VersionGroup(rest)
            seg == "/" \o v
        IN  /\ v # ""
            /\ StartsWith(rest, seg \o seg)
            /\ (Len(rest) = 2 * Len(seg) \/ Ch(rest, 2 * Len(seg) + 1) = "/")

\* C18: whatever base URL, endpoint path and task endpoint are configured,
\* neither the create-task URL nor the task-status URL of the async generator
\* contains the same version segment twice in a row.
C18_NoDoubledVersion ==
    gen = "async" => (~DoubledVersion(create_url) /\ ~DoubledVersion(task_url))

\* C19: the requests of an async call that passed validation are one create
\* POST, then status GETs, then at most one image GET; the image GET directly
\* follows a 200 poll with status SUCCEED and is the last event of the call; a
\* sleep directly follows a 200 poll with a non-terminal status, so none comes
\* before the first poll; every poll is preceded by its own deadline check,
\* which found the deadline not passed, and what follows a sleep is a poll or
\* the timeout that such a check raises.
C19_RequestOrder ==
    gen = "async" =>
       /\ (pc \in {"loop", "sleep", "fetch", "done"} \/ err.kind \notin {"none", "config"})
             => (Len(log) >= 1 /\ log[1].op = "POST")
       /\ \A i \in 1..Len(log) :
             /\ log[i].op \in HttpOps \cup {"SLEEP"}
             /\ log[i].op = "POST" => i = 1
             /\ log[i].op = "GET" =>
                   /\ log[i - 1].op \in {"POST", "SLEEP"}
                   /\ log[i].at <= deadline
             /\ log[i].op = "GET_IMAGE" =>
                   /\ i = Len(log)
                   /\ log[i - 1].op = "GET" /\ log[i - 1].code = 200
                   /\ log[i - 1].status = "SUCCEED"
             /\ log[i].op = "SLEEP" =>
                   /\ log[i - 1].op = "GET" /\ log[i - 1].code = 200
                   /\ ~Terminal(log[i - 1].status)
                   /\ i < Len(log) => log[i + 1].op = "GET"
                   /\ i = Len(log) => (pc = "loop" \/ (pc = "error" /\ err.kind = "timeout"))
       /\ iter = Cardinality(Polls) + (IF err.kind = "timeout" THEN 1 ELSE 0)

\* two sleeps, then SUCCEED, then an image GET that fails
C19_Witness ==
    /\ gen = "async" /\ Len(log) = 7 /\ pc = "error" /\ err.kind = "download"
    /\ log[3].op = "SLEEP" /\ log[5].op = "SLEEP" /\ log[7].op = "GET_IMAGE"

\* the submit was answered 200 and the extractor returned a reference
Extracted == gen = "sync" /\ Len(log) > 0 /\ log[1].code = 200 /\ ~extracted.raised

\* C20: in the sync generator a reference with a non-empty url leads to one
\* GET of that url and nothing else: its body is returned on 200, the call
\* fails on any other status, and the inline value is not decoded even when
\* there is one; without a url the call makes no second request, decodes the
\* inline value when there is one, and raises the not-found error exactly when
\* both are empty.
C20_UrlBeforeInline ==
    Extracted =>
       /\ Truthy(extracted.url) =>
             /\ pc = "s_fetch" <=> Len(log) = 1
             /\ Len(log) <= 2
             /\ Len(log) = 2 =>
                   /\ log[2].op = "GET_IMAGE" /\ log[2].url = extracted.url.v
                   /\ log[2].code = 200 =>
                         (pc = "done" /\ result = Bytes(log[2].content))
                   /\ log[2].code # 200 =>
                         (pc = "error" /\ err.kind = "download" /\ result = NoBytes)
       /\ ~Truthy(extracted.url) =>
             /\ Len(log) = 1
             /\ Finished
             /\ Truthy(extracted.b64) <=> (pc = "done" \/ err.kind = "decode")
             /\ ~Truthy(extracted.b64) <=> err.kind = "not_found"
             /\ pc = "done" => result = ResolveInline(extracted.b64.v)

\* both a url and an inline value, and the GET of the url fails
C20_Witness ==
    /\ Extracted /\ Truthy(extracted.url) /\ Truthy(extracted.b64)
    /\ Len(log) = 2 /\ pc = "error" /\ err.kind = "download"

\* the inline value of the reference encodes b, bare or behind a data-URI header
Encodes(b) ==
    \/ extracted.b64 = JStr(B64Encode(b))
    \/ extracted.b64 = JStr(DataUriHeader \o B64Encode(b))

\* C13 as stated: for every byte string B, a 200 submit response whose
\* reference has no url and the inline value base64(B), bare or behind a
\* data-URI header, makes the call return exactly B.
C13_RoundTrip ==
    \A b \in ByteStrings :
        (Extracted /\ ~Truthy(extracted.url) /\ Encodes(b))
            => (pc = "done" /\ result = Bytes(b))

\* C13 amended: the same for every byte string B whose inline value is not
\* the empty string, that is for every non-empty B, and for the empty B behind
\* a data-URI header; inline 'aGVsbG8=' yields b'hello'.
C13_RoundTripNonEmpty ==
    /\ B64Encode(Hello) = "aGVsbG8="
    /\ \A b \in ByteStrings :
          (Extracted /\ ~Truthy(extracted.url) /\ Encodes(b) /\ Truthy(extracted.b64))
              => (pc = "done" /\ err = NoErr /\ Len(log) = 1 /\ result = Bytes(b))

\* three bytes that are not valid text came back from behind a data-URI header
C13_Witness ==
    /\ Extracted /\ pc = "done" /\ result = Bytes(<<255, 0, 104>>)
    /\ StartsWith(extracted.b64.v, DataUriHeader)

SizeDelimiters == {"x", "X", MulSign}

\* s is the decimal spelling of a non-negative integer: str(w) for some w
Decimal(s) == s # "" /\ IntParses(s) /\ IntToStr(StrToInt(s)) = s

\* C14: for all non-negative integers w and h and each of the delimiters x,
\* X and the multiplication sign, the size 'w<delimiter>h' normalizes to
\* 'w*h', whatever the aspect ratio is.
C14_DelimiterIndependent ==
    (call.fn = "_normalize_size" /\ ret.returned /\ call.size.t = "str") =>
        \A i \in 2..(Len(call.size.v) - 1) :
            LET w == SubSeq(call.size.v, 1, i - 1)
                h == SubSeq(call.size.v, i + 1, Len(call.size.v))
            IN  (Ch(call.size.v, i) \in SizeDelimiters /\ Decimal(w) /\ Decimal(h))
                    => ret = Returned(w \o "*" \o h)

\* 10 by 1 written with the multiplication sign, for a ratio of another shape
C14_Witness ==
    /\ call.fn = "_normalize_size" /\ ret.returned
    /\ call.size = JStr("10" \o MulSign \o "1") /\ call.aspect_ratio = "16:9"
    /\ ret = Returned("10*1")

\* exactly two integer components separated by one delimiter
WellFormedSize(size) ==
    /\ size.t = "str"
    /\ \E i \in 2..(Len(size.v) - 1) :
          /\ Ch(size.v, i) \in SizeDelimiters
          /\ IntParses(SubSeq(size.v, 1, i - 1))
          /\ IntParses(SubSeq(size.v, i + 1, Len(size.v)))

\* C15: normalizeSize never raises, and for every size that is absent or is
\* anything other than two integer components separated by one delimiter
\* (doubled or leading delimiter, one or three components, non-digits) it
\* returns the table entry of the aspect ratio, '1280*1280' for a ratio that
\* is not a key of the table.
C15_FallsBackToTable ==
    (call.fn = "_normalize_size" /\ ret.returned) =>
        /\ ~ret.raised
        /\ ~WellFormedSize(call.size) =>
              /\ ret.value = AspectRatioToSize(call.aspect_ratio)
              /\ call.aspect_ratio \notin AspectRatios => ret.value = "1280*1280"

\* the prompt as text: a missing prompt is the empty text
PromptText == IF Truthy(call.prompt) THEN call.prompt.v ELSE ""

\* max(configuredMax, 100)
PromptBound ==
    IF call.max_prompt_chars > PromptFloor THEN call.max_prompt_chars ELSE PromptFloor

\* C16: for every prompt, missing and empty included, and every configured
\* maximum, the normalized prompt is at most max(configuredMax, 100)
\* characters long, starts and ends with no whitespace, and is the trimmed
\* prompt itself when that is within the bound.
C16_PromptBound ==
    (call.fn = "_normalize_prompt" /\ ret.returned) =>
        /\ ~ret.raised
        /\ Len(ret.value) <= PromptBound
        /\ ret.value # "" =>
              (~IsSpace(Ch(ret.value, 1)) /\ ~IsSpace(Ch(ret.value, Len(ret.value))))
        /\ StartsWith(LStrip(PromptText), ret.value)
        /\ Len(Strip(PromptText)) <= PromptBound => ret.value = Strip(PromptText)

\* a maximum below the floor, and the cut at the floor falls among blanks:
\* the result is shorter than the floor
C16_Witness ==
    /\ call.fn = "_normalize_prompt" /\ ret.returned
    /\ call.max_prompt_chars < PromptFloor
    /\ Len(Strip(PromptText)) > PromptFloor
    /\ Len(ret.value) < PromptFloor

\* the last non-empty status among the polls of a log
RECURSIVE LastNonEmptyIn(_, _)
LastNonEmptyIn(l, i) ==
    IF i = 0 THEN JNull
    ELSE IF l[i].op = "GET" /\ l[i].status # "" THEN JStr(l[i].status)
    ELSE LastNonEmptyIn(l, i - 1)

\* what a call does when it runs alone, as a function of the instance, its
\* own responses and the clock: its requests go to the URLs of the instance
\* and of its own task, and its outcome is the one its own responses give
AloneAsync(c) ==
    LET n == Len(c.log) IN
    /\ \A i \in 1..n :
          /\ c.log[i].op = "POST" =>
                (i = 1 /\ c.log[i].url = self.base_url \o self.endpoint_type)
          /\ c.log[i].op = "GET" =>
                /\ c.log[i].url = self.base_url \o self.task_endpoint \o "/"
                                     \o TaskIdOf(Or(c.log[1].body, EmptyDict)).v
                /\ c.log[i].at <= c.t_enter + self.max_wait_seconds
                /\ c.log[i - 1].op \in {"POST", "SLEEP"}
          /\ c.log[i].op = "SLEEP" =>
                /\ c.log[i - 1].op = "GET" /\ c.log[i - 1].code = 200
                /\ ~Terminal(c.log[i - 1].status)
          /\ c.log[i].op = "GET_IMAGE" =>
                /\ i = n
                /\ c.log[i - 1].op = "GET" /\ c.log[i - 1].status = "SUCCEED"
                /\ c.log[i].url = Get(c.task_data, "output_images").v[1].v
          /\ (c.log[i].op \in HttpOps /\ c.log[i].code # 200) =>
                (i = n /\ c.pc = "error" /\ c.err.code = c.log[i].code)
    /\ c.pc = "done" =>
          (c.log[n].op = "GET_IMAGE" /\ c.result = Bytes(c.log[n].content))
    /\ c.err.kind = "timeout" =>
          /\ c.err.last_status = LastNonEmptyIn(c.log, n)
          /\ c.err.wait = self.max_wait_seconds
          /\ now > c.t_enter + self.max_wait_seconds
    /\ c.err.kind = "failed" =>
          /\ c.log[n].op = "GET" /\ c.log[n].status = "FAILED"
          /\ c.err.msg = FirstPresentMessage(c.task_data)

AloneSync(c) ==
    LET n == Len(c.log) IN
    /\ n <= 2
    /\ n >= 1 =>
          /\ c.log[1].op = "POST"
          /\ c.log[1].url = self.base_url \o self.endpoint_path
          /\ c.log[1].code # 200 => (n = 1 /\ c.err.kind = "request")
          /\ c.log[1].code = 200 =>
                /\ c.task_data = (IF c.log[1].body = NoContent THEN EmptyDict
                                  ELSE c.log[1].body)
                /\ c.extracted = Extract(c.task_data)
    /\ n = 2 =>
          /\ c.log[2].op = "GET_IMAGE" /\ c.log[2].url = c.extracted.url.v
          /\ c.log[2].code # 200 => c.err.kind = "download"
          /\ c.log[2].code = 200 => c.result = Bytes(c.log[2].content)
    /\ (c.pc = "done" /\ n = 1) => c.result = ResolveInline(c.extracted.b64.v)

Alone(c) ==
    CASE gen = "async" -> AloneAsync(c)
      [] gen = "sync"  -> AloneSync(c)
      [] OTHER -> c.log = <<>>

\* no step of a call writes the generator
SelfKept == pc # "new" => (self' = self /\ gen' = gen)

\* C17: two calls on one generator instance, interleaved in any way: no step
\* of either call changes a field of the generator, and each call's requests
\* and outcome are those its own arguments and responses give when it runs
\* alone.
C17_CallsIndependent ==
    /\ [][SelfKept]_vars
    /\ [](other.id # 0 => (Alone(CurCtx(3 - other.id)) /\ Alone(other)))

\* both calls entered polling at the same time and slept; one got its image
\* from its own task, the other ran into the timeout
C17_Witness ==
    /\ gen = "async" /\ other.id # 0
    /\ pc = "error" /\ err.kind = "timeout" /\ other.pc = "done"
    /\ t_enter = other.t_enter
    /\ task_url # other.task_url
    /\ \E i \in 1..Len(log) : log[i].op = "SLEEP"
    /\ \E i \in 1..Len(other.log) : other.log[i].op = "SLEEP"

====
